---------------------------- MODULE Spec2Model ----------------------------
(***************************************************************************)
(* A model of the Obscurix interpreter (src/src/obscurix/interpreter.py).  *)
(*                                                                         *)
(* A Python string is a sequence of characters.  A character is a TLA+     *)
(* string used as an atom: "x", "3", " ".  The glyphs of the language are  *)
(* not ASCII, so each glyph character is written as an ASCII atom          *)
(* ("fn{" stands for the one character U+2940, and so on).  The fixed text *)
(* of an interpreter message ("Function not found: ") is kept as one atom  *)
(* in front of the characters the f-string appends to it.                  *)
(*                                                                         *)
(* The recursion of _execute_block / _execute_function_call is an explicit *)
(* stack of activation frames; a Python exception in flight is the value   *)
(* of the variable sig while the frames unwind.                            *)
(***************************************************************************)
EXTENDS Integers, Sequences, FiniteSets, TLC

\* ------------------------------------------------------------------------
\* Obscurix Constants (Symbols), interpreter.py lines 8-29.  Each is a
\* Python string, hence a sequence of characters.
FUNC_START == <<"fn{">>
FUNC_END == <<"}fn">>
IF_START == <<"if{">>
IF_COND == <<"?">>
IF_THEN == <<"=>">>
IF_ELSE == <<"else">>
IF_END == <<"}if">>
TRY_START == <<"try{">>
CATCH == <<"catch">>
FINALLY == <<"finally">>
TRY_END == <<"}try">>
ASSIGN == <<":=">>
ADD == <<"[+]">>
SUB == <<"[-]">>
CALL == <<"$">>
PRINT == <<"*">>
THROW == <<"lam", "!">>
RETURN == <<"ret">>
LT == <<"<">>
EQ == <<"==">>
\* the comment-start character of the regular expression at line 68
COMMENT == "#"
\* the white space source texts are written with
SP == " "
NL == "\n"

STANDALONE_SYMBOLS ==
    << FUNC_START, FUNC_END, IF_START, IF_COND, IF_THEN, IF_ELSE, IF_END,
       TRY_START, CATCH, FINALLY, TRY_END, THROW, RETURN, ASSIGN,
       ADD, SUB, LT, EQ >>

\* ------------------------------------------------------------------------
\* Python's string and list primitives the interpreter uses.

Range(s) == { s[k] : k \in 1..Len(s) }

\* x in list
InList(x, list) == \E k \in 1..Len(list) : list[k] = x

\* s.startswith(p)
StartsWith(s, p) == Len(s) >= Len(p) /\ SubSeq(s, 1, Len(p)) = p

\* s.endswith(p)
EndsWith(s, p) == Len(s) >= Len(p) /\ SubSeq(s, Len(s) - Len(p) + 1, Len(s)) = p

\* str.isspace() of one character, over the white space of the source texts
IsSpace(c) == c \in {SP, NL}

\* Python slice s[a:b] with 0-based a <= b (b is clipped to the length)
Slice(s, a, b) == SubSeq(s, a + 1, IF b > Len(s) THEN Len(s) ELSE b)

\* s[a:]
SliceFrom(s, a) == SubSeq(s, a + 1, Len(s))


\* ------------------------------------------------------------------------
\* The lexer: ObscurixRuntime._tokenize, lines 61-105.

\* the members of a finite set of integers, in increasing order
Sorted(S) ==
    [m \in 1..Cardinality(S) |-> CHOOSE k \in S : Cardinality({j \in S : j <= k}) = m]

\* the concatenation of the sequences seqs[lo], ..., seqs[hi]
RECURSIVE FlattenRange(_, _, _)
FlattenRange(seqs, lo, hi) ==
    IF lo > hi THEN << >>
    ELSE IF lo = hi THEN seqs[lo]
    ELSE LET mid == (lo + hi) \div 2
         IN  FlattenRange(seqs, lo, mid) \o FlattenRange(seqs, mid + 1, hi)

Flatten(seqs) == FlattenRange(seqs, 1, Len(seqs))

\* str.splitlines(): the text cut at every line break, line breaks dropped
SplitLines(text) ==
    LET nls == Sorted({k \in 1..Len(text) : text[k] = NL})
        count == IF text = << >> THEN 0
                 ELSE IF text[Len(text)] = NL THEN Len(nls) ELSE Len(nls) + 1
    IN  [m \in 1..count |->
            SubSeq(text,
                   IF m = 1 THEN 1 ELSE nls[m - 1] + 1,
                   IF m <= Len(nls) THEN nls[m] - 1 ELSE Len(text))]

\* re.sub('<comment char>.*', '', line): the line up to its first comment character
RemoveComment(line) ==
    LET at == {k \in 1..Len(line) : line[k] = COMMENT}
    IN  IF at = {} THEN line
        ELSE SubSeq(line, 1, (CHOOSE k \in at : \A j \in at : k <= j) - 1)

\* str.strip()
Strip(s) ==
    LET ink == {k \in 1..Len(s) : ~IsSpace(s[k])}
    IN  IF ink = {} THEN << >>
        ELSE SubSeq(s, CHOOSE k \in ink : \A j \in ink : k <= j,
                       CHOOSE k \in ink : \A j \in ink : k >= j)

\* lines 64-70: the stripped, comment-free, non-empty lines
RECURSIVE CleanLines(_)
CleanLines(lines) ==
    IF lines = << >> THEN << >>
    ELSE LET line_clean == Strip(RemoveComment(Head(lines)))
         IN  (IF line_clean # << >> THEN <<line_clean>> ELSE << >>)
             \o CleanLines(Tail(lines))

\* sep.join(list)
Join(list, sep) ==
    Flatten([k \in 1..Len(list) |-> IF k = 1 THEN list[k] ELSE sep \o list[k]])

\* str.replace(symbol, ' symbol '): every occurrence, left to right (no symbol
\* of STANDALONE_SYMBOLS overlaps itself, so the occurrences are all the places
\* where the symbol matches)
Pad(s, symbol) ==
    LET Match(k) == k >= 1 /\ k + Len(symbol) - 1 <= Len(s)
                    /\ SubSeq(s, k, k + Len(symbol) - 1) = symbol
        Inside(k) == \E j \in (k - Len(symbol) + 1)..(k - 1) : Match(j)
    IN  Flatten([k \in 1..Len(s) |->
                    IF Match(k) THEN <<SP>> \o symbol \o <<SP>>
                    ELSE IF Inside(k) THEN << >>
                    ELSE <<s[k]>>])

\* lines 77-78: the padding, one symbol of STANDALONE_SYMBOLS after the other
RECURSIVE PadAll(_, _)
PadAll(s, k) ==
    IF k > Len(STANDALONE_SYMBOLS) THEN s
    ELSE PadAll(Pad(s, STANDALONE_SYMBOLS[k]), k + 1)

\* str.split(): the maximal runs of non-space characters
Split(s) ==
    LET starts == Sorted({k \in 1..Len(s) :
                            ~IsSpace(s[k]) /\ (k = 1 \/ IsSpace(s[k - 1]))})
        EndOf(k) == CHOOSE j \in k..Len(s) :
                        /\ j = Len(s) \/ IsSpace(s[j + 1])
                        /\ \A m \in k..j : ~IsSpace(s[m])
    IN  [m \in 1..Len(starts) |-> SubSeq(s, starts[m], EndOf(starts[m]))]

\* lines 85-100: the merge pass, from 0-based position i
RECURSIVE MergeFrom(_, _)
MergeFrom(toks, i) ==
    IF ~(i < Len(toks)) THEN << >>
    ELSE LET token == toks[i + 1] IN
         IF /\ (token = CALL \/ token = PRINT)
            /\ i + 1 < Len(toks)
            /\ ~InList(toks[i + 2], STANDALONE_SYMBOLS)
            /\ ~InList(toks[i + 2], <<CALL, PRINT>>)
         THEN <<token \o toks[i + 2]>> \o MergeFrom(toks, i + 2)
         ELSE <<token>> \o MergeFrom(toks, i + 1)

Tokenize(source_code) ==
    LET code_without_comments == CleanLines(SplitLines(source_code))
        code_string == Join(code_without_comments, <<SP>>)
        split == Split(PadAll(code_string, 1))
    IN  MergeFrom(split, 0)


\* ------------------------------------------------------------------------
\* Python values and exceptions.

IntV(k) == [t |-> "int", n |-> k, s |-> << >>]
StrV(str) == [t |-> "str", n |-> 0, s |-> str]
BoolV(b) == [t |-> "bool", n |-> IF b THEN 1 ELSE 0, s |-> << >>]
NoneV == [t |-> "none", n |-> 0, s |-> << >>]

\* bool is a subclass of int
IsNum(v) == v.t \in {"int", "bool"}

\* an exception object: its class and its one argument
Exc(cls, arg) == [cls |-> cls, arg |-> arg]

\* raise Exception(f"<text>{rest}")
Error(text, rest) == Exc("Exception", StrV(<<text>> \o rest))

\* the outcome of a Python call: a value, or a raised exception
Ok(v) == [ok |-> TRUE, v |-> v, exc |-> Exc("none", NoneV)]
Raise(e) == [ok |-> FALSE, v |-> NoneV, exc |-> e]

Digits == <<"0", "1", "2", "3", "4", "5", "6", "7", "8", "9">>

IsDigit(c) == InList(c, Digits)

DigitVal(c) == (CHOOSE k \in 1..10 : Digits[k] = c) - 1

RECURSIVE DigitsVal(_, _)
DigitsVal(s, acc) ==
    IF s = << >> THEN acc ELSE DigitsVal(Tail(s), 10 * acc + DigitVal(Head(s)))

AllDigits(s) == s # << >> /\ \A k \in 1..Len(s) : IsDigit(s[k])

\* int(token) succeeds: an optional sign and decimal digits
IsIntLiteral(token) ==
    \/ AllDigits(token)
    \/ /\ token # << >>
       /\ Head(token) \in {"-", "+"}
       /\ AllDigits(Tail(token))

\* int(token)
ParseInt(token) ==
    IF Head(token) = "-" THEN 0 - DigitsVal(Tail(token), 0)
    ELSE IF Head(token) = "+" THEN DigitsVal(Tail(token), 0)
    ELSE DigitsVal(token, 0)

RECURSIVE NatStr(_)
NatStr(k) ==
    IF k < 10 THEN <<Digits[k + 1]>> ELSE NatStr(k \div 10) \o <<Digits[(k % 10) + 1]>>

\* str(v)
PyStr(v) ==
    CASE v.t = "int" -> IF v.n < 0 THEN <<"-">> \o NatStr(0 - v.n) ELSE NatStr(v.n)
      [] v.t = "bool" -> IF v.n = 1 THEN <<"T", "r", "u", "e">>
                         ELSE <<"F", "a", "l", "s", "e">>
      [] v.t = "none" -> <<"N", "o", "n", "e">>
      [] v.t = "str" -> v.s

\* str(e) of an exception built with one argument
ExcStr(e) == PyStr(e.arg)

\* type(v).__name__
TypeName(v) ==
    CASE v.t = "int" -> <<"int">>
      [] v.t = "bool" -> <<"bool">>
      [] v.t = "none" -> <<"NoneType">>
      [] v.t = "str" -> <<"str">>

\* bool(v)
Truthy(v) ==
    CASE v.t \in {"int", "bool"} -> v.n # 0
      [] v.t = "none" -> FALSE
      [] v.t = "str" -> v.s # << >>

\* token.strip('"')
RECURSIVE LStripQ(_)
LStripQ(s) == IF s # << >> /\ Head(s) = "\"" THEN LStripQ(Tail(s)) ELSE s

RECURSIVE RStripQ(_)
RStripQ(s) ==
    IF s # << >> /\ s[Len(s)] = "\"" THEN RStripQ(SubSeq(s, 1, Len(s) - 1)) ELSE s

StripQ(s) == RStripQ(LStripQ(s))

\* the code points of the characters of the source texts, for str < str
CodePoint(c) ==
    CASE IsDigit(c) -> 48 + DigitVal(c)
      [] c = "\"" -> 34
      [] c = "-" -> 45
      [] c = "+" -> 43
      [] c = "T" -> 84
      [] c = "F" -> 70
      [] c = "N" -> 78
      [] c = "a" -> 97
      [] c = "b" -> 98
      [] c = "e" -> 101
      [] c = "f" -> 102
      [] c = "g" -> 103
      [] c = "h" -> 104
      [] c = "k" -> 107
      [] c = "l" -> 108
      [] c = "m" -> 109
      [] c = "n" -> 110
      [] c = "o" -> 111
      [] c = "r" -> 114
      [] c = "s" -> 115
      [] c = "u" -> 117
      [] c = "x" -> 120
      [] c = "y" -> 121
      [] c = "z" -> 122
      [] OTHER -> 9000

\* s1 < s2 of two strings
RECURSIVE StrLess(_, _)
StrLess(s1, s2) ==
    IF s2 = << >> THEN FALSE
    ELSE IF s1 = << >> THEN TRUE
    ELSE IF Head(s1) = Head(s2) THEN StrLess(Tail(s1), Tail(s2))
    ELSE CodePoint(Head(s1)) < CodePoint(Head(s2))

\* the TypeError of a binary arithmetic operator
OperandError(sign, a, b) ==
    Exc("TypeError",
        StrV(<<"unsupported operand type(s) for ">> \o <<sign>> \o <<": '">>
             \o TypeName(a) \o <<"' and '">> \o TypeName(b) \o <<"'">>))

\* op1 + op2
PyAdd(a, b) ==
    IF IsNum(a) /\ IsNum(b) THEN Ok(IntV(a.n + b.n))
    ELSE IF a.t = "str" /\ b.t = "str" THEN Ok(StrV(a.s \o b.s))
    ELSE Raise(OperandError("+", a, b))

\* op1 - op2
PySub(a, b) ==
    IF IsNum(a) /\ IsNum(b) THEN Ok(IntV(a.n - b.n))
    ELSE Raise(OperandError("-", a, b))

\* op1 < op2
PyLt(a, b) ==
    IF IsNum(a) /\ IsNum(b) THEN Ok(BoolV(a.n < b.n))
    ELSE IF a.t = "str" /\ b.t = "str" THEN Ok(BoolV(StrLess(a.s, b.s)))
    ELSE Raise(Exc("TypeError",
                   StrV(<<"'<' not supported between instances of '">>
                        \o TypeName(a) \o <<"' and '">> \o TypeName(b) \o <<"'">>)))

\* op1 == op2
PyEq(a, b) ==
    IF IsNum(a) /\ IsNum(b) THEN Ok(BoolV(a.n = b.n))
    ELSE IF a.t = b.t THEN Ok(BoolV(a.s = b.s))
    ELSE Ok(BoolV(FALSE))

\* ------------------------------------------------------------------------
\* Dictionaries: functions from keys (tokens) to values.

EmptyDict == [k \in {} |-> NoneV]

\* d[k] = v
DictSet(d, k, v) == [x \in DOMAIN d \cup {k} |-> IF x = k THEN v ELSE d[x]]

\* d.copy(); d.update(e)
DictUpdate(d, e) == [x \in DOMAIN d \cup DOMAIN e |-> IF x \in DOMAIN e THEN e[x] ELSE d[x]]


\* ------------------------------------------------------------------------
\* The pure helpers of the runtime.  Token positions are 0-based, as in the
\* code: tokens[i] of the code is At(tokens, i).

At(tokens, i) == tokens[i + 1]

\* a variant of _get_value that looks a name up in the global table first
GetValueGlobalFirst(token, scope, symbol_table) ==
    IF StartsWith(token, <<"\"">>) /\ EndsWith(token, <<"\"">>)
    THEN Ok(StrV(StripQ(token)))
    ELSE IF IsIntLiteral(token) THEN Ok(IntV(ParseInt(token)))
    ELSE IF token \in DOMAIN symbol_table THEN Ok(symbol_table[token])
    ELSE IF token \in DOMAIN scope THEN Ok(scope[token])
    ELSE Raise(Error("Undefined variable/symbol: ", token))

\* _get_value, lines 107-128
GetValue(token, scope, symbol_table) ==
    IF StartsWith(token, <<"\"">>) /\ EndsWith(token, <<"\"">>)
    THEN Ok(StrV(StripQ(token)))
    ELSE IF IsIntLiteral(token) THEN Ok(IntV(ParseInt(token)))
    ELSE IF token \in DOMAIN scope THEN Ok(scope[token])
    ELSE IF token \in DOMAIN symbol_table THEN Ok(symbol_table[token])
    ELSE Raise(Error("Undefined variable/symbol: ", token))

\* a variant of _evaluate_expression that takes the value of the first token
\* of a slice it does not recognize
EvaluateExpressionLenient(expr_tokens, scope, symbol_table) ==
    IF expr_tokens = << >> THEN Raise(Error("Invalid expression: Empty expression.", << >>))
    ELSE IF Len(expr_tokens) = 3 /\ expr_tokens[2] = ADD
    THEN LET op1 == GetValue(expr_tokens[1], scope, symbol_table)
             op2 == GetValue(expr_tokens[3], scope, symbol_table)
         IN  IF ~op1.ok THEN op1 ELSE IF ~op2.ok THEN op2 ELSE PyAdd(op1.v, op2.v)
    ELSE GetValue(expr_tokens[1], scope, symbol_table)

\* _evaluate_expression, lines 134-135 and 141-160: every expression that is
\* not a function call (Case 1, lines 138-139, is a step of the machine)
EvaluateExpression(expr_tokens, scope, symbol_table) ==
    IF expr_tokens = << >> THEN Raise(Error("Invalid expression: Empty expression.", << >>))
    ELSE IF Len(expr_tokens) = 1 THEN GetValue(expr_tokens[1], scope, symbol_table)
    ELSE IF Len(expr_tokens) = 3
    THEN LET op1 == GetValue(expr_tokens[1], scope, symbol_table)
             operator == expr_tokens[2]
             op2 == GetValue(expr_tokens[3], scope, symbol_table)
         IN  IF ~op1.ok THEN op1
             ELSE IF ~op2.ok THEN op2
             ELSE IF operator = ADD THEN PyAdd(op1.v, op2.v)
             ELSE IF operator = SUB THEN PySub(op1.v, op2.v)
             ELSE IF operator = LT THEN PyLt(op1.v, op2.v)
             ELSE IF operator = EQ THEN PyEq(op1.v, op2.v)
             ELSE Raise(Error("Invalid expression: ", Join(expr_tokens, <<SP>>)))
    ELSE Raise(Error("Invalid expression: ", Join(expr_tokens, <<SP>>)))

\* _find_matching_end, lines 202-211: the loop from position i at nest_level;
\* -1 stands for leaving the loop without a match
RECURSIVE FindEndFrom(_, _, _, _, _)
FindEndFrom(tokens, i, nest_level, start_token, end_token) ==
    IF ~(i < Len(tokens)) THEN -1
    ELSE IF At(tokens, i) = start_token
         THEN FindEndFrom(tokens, i + 1, nest_level + 1, start_token, end_token)
    ELSE IF At(tokens, i) = end_token
         THEN (IF nest_level - 1 = 0 THEN i
               ELSE FindEndFrom(tokens, i + 1, nest_level - 1, start_token, end_token))
    ELSE FindEndFrom(tokens, i + 1, nest_level, start_token, end_token)

\* _find_matching_end, lines 199-211
FindMatchingEnd(tokens, start_index, start_token, end_token) ==
    LET i == FindEndFrom(tokens, start_index, 0, start_token, end_token)
    IN  IF i # -1 THEN Ok(IntV(i))
        ELSE Raise(Error("Syntax error: Missing '",
                         end_token \o <<"' for '">> \o start_token \o <<"'.">>))

\* _is_command_starter, lines 213-221
IsCommandStarter(token) ==
    StartsWith(token, PRINT) \/ InList(token, <<IF_START, TRY_START, THROW, RETURN>>)

\* _is_block_end, lines 223-225
IsBlockEnd(token) ==
    InList(token, <<FUNC_END, IF_END, TRY_END, IF_ELSE, CATCH, FINALLY>>)

\* tokens.index(x, start, stop) with its ValueError caught: -1 when x is absent
RECURSIVE Index(_, _, _, _)
Index(tokens, x, start, stop) ==
    IF ~(start < stop /\ start < Len(tokens)) THEN -1
    ELSE IF At(tokens, start) = x THEN start
    ELSE Index(tokens, x, start + 1, stop)

\* run, lines 464-471: where the parameter list ends
RECURSIVE ParamScan(_, _)
ParamScan(func_def_tokens, body_start_index) ==
    IF ~(body_start_index < Len(func_def_tokens)) THEN body_start_index
    ELSE LET t == At(func_def_tokens, body_start_index) IN
         IF \/ IsCommandStarter(t)
            \/ IsBlockEnd(t)
            \/ (body_start_index + 1 < Len(func_def_tokens)
                /\ At(func_def_tokens, body_start_index + 1) = ASSIGN)
         THEN body_start_index
         ELSE ParamScan(func_def_tokens, body_start_index + 1)

\* a variant of the scan of lines 281-286 that also stops at a call-prefixed token
RECURSIVE CallScanStopsAtCall(_, _)
CallScanStopsAtCall(tokens, expr_end) ==
    IF ~(expr_end < Len(tokens)) THEN expr_end
    ELSE IF \/ IsCommandStarter(At(tokens, expr_end))
            \/ IsBlockEnd(At(tokens, expr_end))
            \/ StartsWith(At(tokens, expr_end), CALL)
            \/ (expr_end + 1 < Len(tokens) /\ At(tokens, expr_end + 1) = ASSIGN)
         THEN expr_end
         ELSE CallScanStopsAtCall(tokens, expr_end + 1)

\* _execute_block, lines 281-286: where a standalone call ends
RECURSIVE CallScan(_, _)
CallScan(tokens, expr_end) ==
    IF ~(expr_end < Len(tokens)) THEN expr_end
    ELSE IF \/ IsCommandStarter(At(tokens, expr_end))
            \/ IsBlockEnd(At(tokens, expr_end))
            \/ (expr_end + 1 < Len(tokens) /\ At(tokens, expr_end + 1) = ASSIGN)
         THEN expr_end
         ELSE CallScan(tokens, expr_end + 1)

\* a variant of the scan of lines 302-313 without the look at the next token
RECURSIVE AssignScanNoLookahead(_, _)
AssignScanNoLookahead(tokens, expr_end) ==
    IF ~(expr_end < Len(tokens)) THEN expr_end
    ELSE IF IsCommandStarter(At(tokens, expr_end)) \/ IsBlockEnd(At(tokens, expr_end))
         THEN expr_end
         ELSE AssignScanNoLookahead(tokens, expr_end + 1)

\* _execute_block, lines 302-313: where the expression of an assignment ends
RECURSIVE AssignScan(_, _)
AssignScan(tokens, expr_end) ==
    IF ~(expr_end < Len(tokens)) THEN expr_end
    ELSE LET t == At(tokens, expr_end) IN
         IF IsCommandStarter(t) THEN expr_end
         ELSE IF IsBlockEnd(t) THEN expr_end
         ELSE IF expr_end + 1 < Len(tokens) /\ At(tokens, expr_end + 1) = ASSIGN
              THEN expr_end
         ELSE AssignScan(tokens, expr_end + 1)


\* a variant of lines 328-331 that writes the global table alone in every case
AssignTablesGlobal(target_var, scope) == {"symbol_table"}

\* a variant of lines 328-331 that writes the global table in every case
AssignTablesBoth(target_var, scope) ==
    IF target_var \in DOMAIN scope THEN {"scope", "symbol_table"} ELSE {"symbol_table"}

\* _execute_block, lines 328-331: the tables an assignment to target_var writes
AssignTables(target_var, scope) ==
    IF target_var \in DOMAIN scope THEN {"scope"} ELSE {"symbol_table"}

\* a variant of line 183 that resolves the argument in the scope being built
ArgValueInCallee(arg, scope, func_scope, symbol_table) ==
    GetValue(arg, func_scope, symbol_table)

\* _execute_function_call, line 183: the value of one argument
ArgValue(arg, scope, func_scope, symbol_table) == GetValue(arg, scope, symbol_table)

\* _execute_function_call, lines 182-185: the parameters from position k on
RECURSIVE BindParams(_, _, _, _, _, _)
BindParams(params, args, k, scope, func_scope, symbol_table) ==
    IF k > Len(params) THEN [ok |-> TRUE, exc |-> Exc("none", NoneV), func_scope |-> func_scope]
    ELSE LET arg_value == ArgValue(args[k], scope, func_scope, symbol_table) IN
         IF ~arg_value.ok
         THEN [ok |-> FALSE, exc |-> arg_value.exc, func_scope |-> func_scope]
         ELSE BindParams(params, args, k + 1, scope,
                         DictSet(func_scope, params[k], arg_value.v), symbol_table)

\* _execute_function_call, lines 164-185: up to the execution of the body
CallEntry(call_tokens, scope, symbol_table, functions) ==
    LET func_name == call_tokens[1]
        args == Tail(call_tokens)
        Fail(e) == [ok |-> FALSE, exc |-> e, func_scope |-> EmptyDict]
    IN  IF func_name \notin DOMAIN functions
        THEN Fail(Error("Function not found: ", func_name))
        ELSE LET params == functions[func_name].params IN
             IF Len(args) # Len(params)
             THEN Fail(Error("Parameter error when calling ",
                             func_name \o <<". Required ">> \o NatStr(Len(params))
                             \o <<", received ">> \o NatStr(Len(args)) \o <<".">>))
             ELSE BindParams(params, args, 1, scope,
                             DictUpdate(symbol_table, scope), symbol_table)

\* _execute_block, lines 239-424: which branch of the dispatch the token at
\* position i takes (lines 234 and 426: "end" when the loop is over)
Command(tokens, i) ==
    IF ~(i < Len(tokens)) THEN "end"
    ELSE LET token == At(tokens, i) IN
         IF IsBlockEnd(token) THEN "block_end"
         ELSE IF StartsWith(token, PRINT) THEN "print"
         ELSE IF token = THROW THEN "throw"
         ELSE IF token = RETURN THEN "return"
         ELSE IF StartsWith(token, CALL) THEN "call"
         ELSE IF i + 1 < Len(tokens) /\ At(tokens, i + 1) = ASSIGN THEN "assign"
         ELSE IF token = IF_START THEN "if"
         ELSE IF token = TRY_START THEN "try"
         ELSE "unexpected"


\* ------------------------------------------------------------------------
\* The state of one ObscurixRuntime and of its run().

VARIABLES
    source_code,    \* self.source_code, line 52
    phase,          \* where run() is: "init", "pass1", "pass2", "returned", "raised"
    tokens,         \* run's tokens, line 433
    i,              \* run's i, the position of pass 1, line 444
    global_tokens,  \* run's global_tokens, line 443
    functions,      \* self.functions, line 42
    symbol_table,   \* self.symbol_table, line 44
    scopes,         \* the func_scope of every _execute_function_call in progress
    stack,          \* the activations of _execute_block / _execute_function_call
    sig,            \* what the activation that just ended handed to its caller
    output,         \* what print() has written, one string per call
    hist,           \* history: per scope, its contents at call entry and its own writes
    log             \* history: one record per step of the executor

vars == << source_code, phase, tokens, i, global_tokens, functions, symbol_table,
           scopes, stack, sig, output, hist, log >>

NoExc == Exc("none", NoneV)

NoSig == [k |-> "none", v |-> NoneV, exc |-> NoExc]
\* a nested _execute_block returned (its index is never used by a caller)
Returned == [k |-> "returned", v |-> NoneV, exc |-> NoExc]
\* _execute_function_call returned v
ValueSig(v) == [k |-> "value", v |-> v, exc |-> NoExc]
\* the exception e is propagating
ExcSig(e) == [k |-> "exc", v |-> NoneV, exc |-> e]

\* the locals of a handler of _execute_block that is waiting for a nested activation
NoCtx ==
    [expr_end |-> -1, target_var |-> << >>,
     if_end_index |-> -1, then_index |-> -1,
     try_end_index |-> -1, catch_error_var |-> << >>,
     catch_block_start |-> -1, finally_block_start |-> -1,
     pending |-> NoExc, body_exc |-> NoExc, ran |-> << >>]

\* an activation of _execute_block(tokens, start_index, scope), lines 227-233
BlockFrame(toks, start_index) ==
    [kind |-> "block", tokens |-> toks, i |-> start_index, at |-> "run", c |-> NoCtx]

\* an activation of _execute_function_call(tokens, scope) executing the body, line 188
CallFrame(call_tokens) ==
    [kind |-> "call", tokens |-> call_tokens, i |-> 0, at |-> "body", c |-> NoCtx]

Top == stack[Len(stack)]

Pop(stk) == SubSeq(stk, 1, Len(stk) - 1)

\* the scope argument of the running _execute_block: the global table itself at
\* top level (line 491), the func_scope of the innermost call otherwise (line 188)
ActiveScope == IF scopes = << >> THEN symbol_table ELSE scopes[Len(scopes)]

\* a variant of scope[name] = v that writes the global table in every case
ScopeSetGlobal(scs, st, name, v) == [scopes |-> scs, symbol_table |-> DictSet(st, name, v)]

\* scope[name] = v on the active scope
ScopeSet(scs, st, name, v) ==
    IF scs = << >> THEN [scopes |-> scs, symbol_table |-> DictSet(st, name, v)]
    ELSE [scopes |-> [scs EXCEPT ![Len(scs)] = DictSet(@, name, v)], symbol_table |-> st]

\* history: the innermost call's own write of name
HistSet(name, v) ==
    IF hist = << >> THEN hist
    ELSE [hist EXCEPT ![Len(hist)].own = DictSet(@, name, v)]

\* the executor is about to dispatch the token at Top.i
Running ==
    /\ phase = "pass2"
    /\ stack # << >>
    /\ sig.k = "none"
    /\ Top.kind = "block"
    /\ Top.at = "run"

\* the activation on top is waiting in handler state `at` and its callee has ended
Waiting(at) ==
    /\ phase = "pass2"
    /\ stack # << >>
    /\ sig.k # "none"
    /\ Top.kind = "block"
    /\ Top.at = at

Ev(op) == [op |-> op, depth |-> Len(scopes), tokens |-> Top.tokens, i |-> Top.i]

\* one step of the executor, with the records evs it adds to the log
Exec(stk, sg, tabs, out, hs, evs) ==
    /\ stack' = stk
    /\ sig' = sg
    /\ scopes' = tabs.scopes
    /\ symbol_table' = tabs.symbol_table
    /\ output' = out
    /\ hist' = hs
    /\ log' = log \o evs
    /\ UNCHANGED << source_code, phase, tokens, i, global_tokens, functions >>

Tables == [scopes |-> scopes, symbol_table |-> symbol_table]

\* the running activation raises e: it ends, and e propagates to its caller
RaiseExc(e, evs) == Exec(Pop(stack), ExcSig(e), Tables, output, hist, evs)

\* the running activation goes on at position next
Goto(next, tabs, out, hs, evs) ==
    Exec([stack EXCEPT ![Len(stack)] = [@ EXCEPT !.i = next, !.at = "run", !.c = NoCtx]],
         NoSig, tabs, out, hs, evs)

\* the running activation waits in handler state `at` for a nested _execute_block
Nest(at, c, start_index, tabs, hs, evs) ==
    Exec(Append([stack EXCEPT ![Len(stack)] = [@ EXCEPT !.at = at, !.c = c]],
                BlockFrame(Top.tokens, start_index)),
         NoSig, tabs, output, hs, evs)


\* the depth of nested function calls at which the model raises Python's
\* RecursionError (the interpreter's own limit is far larger)
MaxDepth == 3

RecursionError ==
    Exc("RecursionError", StrV(<<"maximum recursion depth exceeded">>))

\* _execute_function_call, lines 162-188, called by a handler that then waits
\* in state `at`: the call faults, or the body starts in its new scope
EnterCall(at, c, call_start, call_tokens) ==
    LET r == CallEntry(call_tokens, ActiveScope, symbol_table, functions)
        ev == Ev("call") @@
              [call_tokens |-> call_tokens, call_start |-> call_start,
               scope |-> ActiveScope, symbol_table |-> symbol_table,
               ok |-> r.ok /\ Len(scopes) < MaxDepth,
               exc |-> IF ~r.ok THEN r.exc
                       ELSE IF Len(scopes) < MaxDepth THEN NoExc ELSE RecursionError,
               func_scope |-> r.func_scope]
    IN  IF ~r.ok THEN RaiseExc(r.exc, <<ev>>)
        ELSE IF ~(Len(scopes) < MaxDepth) THEN RaiseExc(RecursionError, <<ev>>)
        ELSE Exec([stack EXCEPT ![Len(stack)] = [@ EXCEPT !.at = at, !.c = c]]
                    \o << CallFrame(call_tokens),
                          BlockFrame(functions[call_tokens[1]].body, 0) >>,
                  NoSig,
                  [scopes |-> Append(scopes, r.func_scope), symbol_table |-> symbol_table],
                  output,
                  Append(hist, [snap |-> r.func_scope, own |-> EmptyDict]),
                  <<ev>>)

\* lines 234 and 426-427: the loop is over, the block returns
EndOfTokens ==
    /\ Running
    /\ Command(Top.tokens, Top.i) = "end"
    /\ Exec(Pop(stack), Returned, Tables, output, hist, <<Ev("end")>>)

\* lines 239-241: a block terminator returns control to the calling block
BlockEnd ==
    /\ Running
    /\ Command(Top.tokens, Top.i) = "block_end"
    /\ Exec(Pop(stack), Returned, Tables, output, hist, <<Ev("block_end")>>)

\* lines 244-253
PrintCommand ==
    /\ Running
    /\ Command(Top.tokens, Top.i) = "print"
    /\ LET var_name == SliceFrom(At(Top.tokens, Top.i), 1)
           value_to_print == GetValue(var_name, ActiveScope, symbol_table)
           ev == Ev("print") @@ [var_name |-> var_name, r |-> value_to_print]
       IN  IF var_name = << >>
           THEN RaiseExc(Error("Syntax error: '",
                               PRINT \o <<"' command must be followed by a value.">>),
                         <<ev>>)
           ELSE IF ~value_to_print.ok THEN RaiseExc(value_to_print.exc, <<ev>>)
           ELSE Goto(Top.i + 1, Tables, Append(output, PyStr(value_to_print.v)), hist, <<ev>>)

\* lines 256-263
Throw ==
    /\ Running
    /\ Command(Top.tokens, Top.i) = "throw"
    /\ IF Top.i + 1 >= Len(Top.tokens)
       THEN RaiseExc(Error("Syntax error: '",
                           THROW \o <<"' command must be followed by a message.">>),
                     <<Ev("throw") @@ [thrown |-> FALSE]>>)
       ELSE LET message == GetValue(At(Top.tokens, Top.i + 1), ActiveScope, symbol_table) IN
            IF ~message.ok
            THEN RaiseExc(message.exc, <<Ev("throw") @@ [thrown |-> FALSE]>>)
            ELSE RaiseExc(Exc("Exception", message.v),
                          <<Ev("throw") @@ [thrown |-> TRUE]>>)

\* lines 266-273
Return ==
    /\ Running
    /\ Command(Top.tokens, Top.i) = "return"
    /\ IF Top.i + 1 >= Len(Top.tokens)
       THEN RaiseExc(Error("Syntax error: '",
                           RETURN \o <<"' command must be followed by a value.">>),
                     <<Ev("return") @@ [returned |-> FALSE, v |-> NoneV]>>)
       ELSE LET value_to_return ==
                    GetValue(At(Top.tokens, Top.i + 1), ActiveScope, symbol_table) IN
            IF ~value_to_return.ok
            THEN RaiseExc(value_to_return.exc,
                          <<Ev("return") @@ [returned |-> FALSE, v |-> NoneV]>>)
            ELSE RaiseExc(Exc("StopIteration", value_to_return.v),
                          <<Ev("return") @@ [returned |-> TRUE, v |-> value_to_return.v]>>)

\* lines 276-289: the standalone call up to the start of the function body
StandaloneCall ==
    /\ Running
    /\ Command(Top.tokens, Top.i) = "call"
    /\ LET expr_start == Top.i
           expr_end == CallScan(Top.tokens, Top.i + 1)
           call_tokens == Slice(Top.tokens, expr_start, expr_end)
       IN  EnterCall("stmt_call", [NoCtx EXCEPT !.expr_end = expr_end], expr_start, call_tokens)

\* lines 290-291: the standalone call has returned, its value is dropped
StandaloneCallDone ==
    /\ Waiting("stmt_call")
    /\ sig.k = "value"
    /\ Goto(Top.c.expr_end, Tables, output, hist, <<Ev("call_done")>>)

\* lines 324-335: the value of the expression is known
AssignResult(target_var, expr_end, result) ==
    IF StartsWith(target_var, CALL) \/ StartsWith(target_var, PRINT)
    THEN RaiseExc(Error("Cannot assign to command: ", target_var),
                  <<Ev("assign") @@ [target_var |-> target_var, written |-> {}]>>)
    ELSE LET written == AssignTables(target_var, ActiveScope)
             t1 == IF "scope" \in written
                   THEN ScopeSet(scopes, symbol_table, target_var, result)
                   ELSE Tables
             t2 == IF "symbol_table" \in written
                   THEN [t1 EXCEPT !.symbol_table = DictSet(@, target_var, result)]
                   ELSE t1
         IN  Goto(expr_end, t2, output,
                  IF "scope" \in written THEN HistSet(target_var, result) ELSE hist,
                  <<Ev("assign") @@ [target_var |-> target_var, written |-> written,
                                     local |-> target_var \in DOMAIN ActiveScope,
                                     v |-> result]>>)

\* lines 295-335, and lines 138-139 when the expression is a function call
Assign ==
    /\ Running
    /\ Command(Top.tokens, Top.i) = "assign"
    /\ LET target_var == At(Top.tokens, Top.i)
           expr_start == Top.i + 2
           expr_end == AssignScan(Top.tokens, expr_start)
           expr_tokens == Slice(Top.tokens, expr_start, expr_end)
       IN  IF expr_tokens = << >>
           THEN RaiseExc(Error("Syntax error: Missing expression for assignment to '",
                               target_var \o <<"'.">>),
                         <<Ev("assign") @@ [target_var |-> target_var, written |-> {}]>>)
           ELSE IF StartsWith(expr_tokens[1], CALL)
           THEN EnterCall("assign_call",
                          [NoCtx EXCEPT !.expr_end = expr_end, !.target_var = target_var],
                          expr_start, expr_tokens)
           ELSE LET result == EvaluateExpression(expr_tokens, ActiveScope, symbol_table) IN
                IF ~result.ok
                THEN RaiseExc(result.exc,
                              <<Ev("assign") @@ [target_var |-> target_var, written |-> {}]>>)
                ELSE AssignResult(target_var, expr_end, result.v)

\* lines 322-335: the function call of the expression has returned
AssignCallDone ==
    /\ Waiting("assign_call")
    /\ sig.k = "value"
    /\ AssignResult(Top.c.target_var, Top.c.expr_end, sig.v)


\* lines 362-378: the condition is known, a branch runs or the block is skipped
IfBranch(c, condition_result) ==
    LET else_index == Index(Top.tokens, IF_ELSE, c.then_index, c.if_end_index)
        branch_start == IF Truthy(condition_result) THEN c.then_index + 1
                        ELSE IF else_index # -1 THEN else_index + 1
                        ELSE -1
        ev == Ev("if") @@ [cond |-> Truthy(condition_result), branch_start |-> branch_start,
                           if_end_index |-> c.if_end_index]
    IN  IF branch_start # -1
        THEN Nest("if_body", c, branch_start, Tables, hist, <<ev>>)
        ELSE Goto(c.if_end_index + 1, Tables, output, hist, <<ev>>)

\* lines 338-376, and lines 138-139 when the condition is a function call
IfBlock ==
    /\ Running
    /\ Command(Top.tokens, Top.i) = "if"
    /\ LET end == FindMatchingEnd(Top.tokens, Top.i, IF_START, IF_END)
           if_end_index == end.v.n
           cond_index == Index(Top.tokens, IF_COND, Top.i, if_end_index)
           then_index == Index(Top.tokens, IF_THEN, cond_index, if_end_index)
           cond_expr == Slice(Top.tokens, cond_index + 1, then_index)
           c == [NoCtx EXCEPT !.if_end_index = if_end_index, !.then_index = then_index]
           fault == <<Ev("if_fault")>>
       IN  IF ~end.ok THEN RaiseExc(end.exc, fault)
           ELSE IF cond_index = -1
           THEN RaiseExc(Error("Syntax error: Missing '",
                               IF_COND \o <<"' for '">> \o IF_START \o <<"'.">>), fault)
           ELSE IF then_index = -1
           THEN RaiseExc(Error("Syntax error: Missing '",
                               IF_THEN \o <<"' for '">> \o IF_START \o <<"'.">>), fault)
           ELSE IF cond_expr = << >>
           THEN RaiseExc(Error("Invalid expression: Empty IF condition.", << >>), fault)
           ELSE IF StartsWith(cond_expr[1], CALL)
           THEN EnterCall("cond_call", c, cond_index + 1, cond_expr)
           ELSE LET condition_result ==
                        EvaluateExpression(cond_expr, ActiveScope, symbol_table) IN
                IF ~condition_result.ok THEN RaiseExc(condition_result.exc, fault)
                ELSE IfBranch(c, condition_result.v)

\* lines 359-376: the function call of the condition has returned
IfCondCallDone ==
    /\ Waiting("cond_call")
    /\ sig.k = "value"
    /\ IfBranch(Top.c, sig.v)

\* lines 377-378: the branch has returned
IfBodyDone ==
    /\ Waiting("if_body")
    /\ sig.k = "returned"
    /\ Goto(Top.c.if_end_index + 1, Tables, output, hist, <<Ev("if_done")>>)

\* history: how an execution of the try block at Top.i ended
TryExitEv(c, exc) ==
    Ev("try_exit") @@ [ran |-> c.ran, body_exc |-> c.body_exc, exc |-> exc,
                       try_end_index |-> c.try_end_index]

\* lines 419-420, or the end of the try statement with an exception in flight
TryExit(c, pending, evs) ==
    IF pending = NoExc
    THEN Goto(c.try_end_index + 1, Tables, output, hist, evs \o <<TryExitEv(c, NoExc)>>)
    ELSE RaiseExc(pending, evs \o <<TryExitEv(c, pending)>>)

\* lines 414-417: the finally clause of the try statement, entered with the
\* exception `pending` in flight (NoExc: none)
FinallyClause(c, pending, evs) ==
    IF c.finally_block_start # -1
    THEN Nest("finally_body",
              [c EXCEPT !.pending = pending,
                        !.ran = Append(@, [role |-> "finally",
                                           start |-> c.finally_block_start])],
              c.finally_block_start, Tables, hist,
              evs \o <<Ev("finally") @@ [pending |-> pending]>>)
    ELSE TryExit(c, pending, evs)

\* lines 381-404: the try block up to the start of its body
TryBlock ==
    /\ Running
    /\ Command(Top.tokens, Top.i) = "try"
    /\ LET end == FindMatchingEnd(Top.tokens, Top.i, TRY_START, TRY_END)
           try_end_index == end.v.n
           catch_index == Index(Top.tokens, CATCH, Top.i, try_end_index)
           finally_index == Index(Top.tokens, FINALLY, Top.i, try_end_index)
           try_block_start == Top.i + 1
           catch_error_var ==
               IF catch_index # -1 THEN At(Top.tokens, catch_index + 1) ELSE << >>
           catch_block_start ==
               IF catch_index # -1 /\ catch_index + 1 < try_end_index
               THEN catch_index + 2 ELSE -1
           finally_block_start == IF finally_index # -1 THEN finally_index + 1 ELSE -1
           c == [NoCtx EXCEPT !.try_end_index = try_end_index,
                              !.catch_error_var = catch_error_var,
                              !.catch_block_start = catch_block_start,
                              !.finally_block_start = finally_block_start,
                              !.ran = <<[role |-> "try", start |-> try_block_start]>>]
       IN  IF ~end.ok THEN RaiseExc(end.exc, <<Ev("try_fault")>>)
           ELSE Nest("try_body", c, try_block_start, Tables, hist, <<Ev("try")>>)

\* line 404 returned without an exception: on to the finally clause
TryBodyDone ==
    /\ Waiting("try_body")
    /\ sig.k = "returned"
    /\ FinallyClause(Top.c, NoExc, << >>)

\* lines 405-413: `except Exception as e` around the try body
TryBodyRaised ==
    /\ Waiting("try_body")
    /\ sig.k = "exc"
    /\ LET e == sig.exc
           c == [Top.c EXCEPT !.body_exc = e]
           caught == c.catch_block_start # -1
           ev == Ev("except") @@ [exc |-> e, caught |-> caught,
                                  catch_error_var |-> c.catch_error_var,
                                  try_end_index |-> c.try_end_index]
       IN  IF caught
           THEN Nest("catch_body",
                     [c EXCEPT !.ran = Append(@, [role |-> "catch",
                                                  start |-> c.catch_block_start])],
                     c.catch_block_start,
                     ScopeSet(scopes, symbol_table, c.catch_error_var, StrV(ExcStr(e))),
                     HistSet(c.catch_error_var, StrV(ExcStr(e))),
                     <<ev>>)
           ELSE FinallyClause(c, e, <<ev>>)

\* line 410 has returned or raised: on to the finally clause
CatchBodyDone ==
    /\ Waiting("catch_body")
    /\ FinallyClause(Top.c, IF sig.k = "exc" THEN sig.exc ELSE NoExc, <<Ev("catch_done")>>)

\* a variant of the end of line 417 in which the exception in flight goes on
\* even when the finally body raises
FinallyBodyDoneKeepsPending ==
    /\ Waiting("finally_body")
    /\ TryExit(Top.c,
               IF Top.c.pending # NoExc THEN Top.c.pending
               ELSE IF sig.k = "exc" THEN sig.exc ELSE NoExc,
               <<Ev("finally_done")>>)

\* line 417 has returned (the exception in flight, if any, goes on) or raised
FinallyBodyDone ==
    /\ Waiting("finally_body")
    /\ TryExit(Top.c, IF sig.k = "exc" THEN sig.exc ELSE Top.c.pending, <<Ev("finally_done")>>)

\* lines 187-197: the function body has ended
FunctionCallDone ==
    /\ phase = "pass2"
    /\ stack # << >>
    /\ Top.kind = "call"
    /\ sig.k # "none"
    /\ LET out == IF sig.k = "returned" THEN ValueSig(NoneV)
                  ELSE IF sig.exc.cls = "StopIteration" THEN ValueSig(sig.exc.arg)
                  ELSE sig
       IN  Exec(Pop(stack), out,
                [scopes |-> Pop(scopes), symbol_table |-> symbol_table],
                output, Pop(hist),
                <<Ev("call_return") @@ [out |-> out, snap |-> hist[Len(hist)].snap]>>)

\* an exception leaves a handler of _execute_block that does not catch it:
\* lines 289, 322, 359, 370 and 373
Propagate ==
    /\ phase = "pass2"
    /\ stack # << >>
    /\ Top.kind = "block"
    /\ Top.at \in {"stmt_call", "assign_call", "cond_call", "if_body"}
    /\ sig.k = "exc"
    /\ Exec(Pop(stack), sig, Tables, output, hist, <<Ev("propagate")>>)

\* lines 424: the token starts no command
Unexpected ==
    /\ Running
    /\ Command(Top.tokens, Top.i) = "unexpected"
    /\ RaiseExc(Error("Syntax error: Unexpected token '", At(Top.tokens, Top.i) \o <<"'">>),
                <<Ev("unexpected")>>)


\* ------------------------------------------------------------------------
\* run(), lines 429-496.

RunVars == << scopes, stack, sig, hist, log >>

\* lines 431-439: the source is tokenized (the lexer raises nothing)
StartRun ==
    /\ phase = "init"
    /\ tokens' = Tokenize(source_code)
    /\ phase' = IF tokens' = << >> THEN "returned" ELSE "pass1"
    /\ UNCHANGED << source_code, i, global_tokens, functions, symbol_table, output >>
    /\ UNCHANGED RunVars

\* lines 448-482: pass 1 at a function block
DefineFunction ==
    /\ phase = "pass1"
    /\ i < Len(tokens)
    /\ At(tokens, i) = FUNC_START
    /\ LET end == FindMatchingEnd(tokens, i, FUNC_START, FUNC_END)
           func_end_index == end.v.n
           func_def_tokens == Slice(tokens, i + 1, func_end_index)
           func_name == func_def_tokens[1]
           body_start_index == ParamScan(func_def_tokens, 1)
           params == Slice(func_def_tokens, 1, body_start_index)
           func_body == SliceFrom(func_def_tokens, body_start_index)
       IN  IF ~end.ok
           THEN \* lines 452-454: reported, run() returns
                /\ output' = Append(output,
                                    <<"!!! PARSE ERROR (Function Definition) !!!", NL>>
                                    \o ExcStr(end.exc))
                /\ phase' = "returned"
                /\ UNCHANGED << i, functions, sig >>
           ELSE IF func_def_tokens = << >> \/ ~StartsWith(func_def_tokens[1], CALL)
           THEN \* lines 458-459: raised outside any try statement of run()
                /\ sig' = ExcSig(Error("Missing function name or $ symbol in definition.",
                                       << >>))
                /\ phase' = "raised"
                /\ UNCHANGED << i, functions, output >>
           ELSE /\ functions' = DictSet(functions, func_name,
                                        [params |-> params, body |-> func_body])
                /\ i' = func_end_index + 1
                /\ UNCHANGED << phase, output, sig >>
    /\ UNCHANGED << source_code, tokens, global_tokens, symbol_table >>
    /\ UNCHANGED << scopes, stack, hist, log >>

\* lines 483-485: pass 1 at any other token
CopyGlobalToken ==
    /\ phase = "pass1"
    /\ i < Len(tokens)
    /\ At(tokens, i) # FUNC_START
    /\ global_tokens' = Append(global_tokens, At(tokens, i))
    /\ i' = i + 1
    /\ UNCHANGED << source_code, phase, tokens, functions, symbol_table, output >>
    /\ UNCHANGED RunVars

\* lines 487-491: pass 2 starts the global block on the global table
StartPass2 ==
    /\ phase = "pass1"
    /\ ~(i < Len(tokens))
    /\ phase' = "pass2"
    /\ stack' = <<BlockFrame(global_tokens, 0)>>
    /\ UNCHANGED << source_code, tokens, i, global_tokens, functions, symbol_table, output >>
    /\ UNCHANGED << scopes, sig, hist, log >>

\* lines 491-496: the global block has returned or raised
FinishRun ==
    /\ phase = "pass2"
    /\ stack = << >>
    /\ phase' = "returned"
    /\ output' =
         IF sig.k = "returned" THEN output
         ELSE IF sig.exc.cls = "StopIteration"
         THEN Append(output, <<"!!! FATAL ERROR: 'RETURN' (ret) command found in global scope.">>)
         ELSE Append(output, <<"!!! UNHANDLED PROGRAM ERROR !!!", NL>> \o ExcStr(sig.exc))
    /\ UNCHANGED << source_code, tokens, i, global_tokens, functions, symbol_table >>
    /\ UNCHANGED RunVars


\* main, lines 28-41 of __main__.py: the exit status of the process once run()
\* has ended (-1 while it runs): 1 when an exception left run(), 0 when run()
\* returned and main returns after it
ExitStatus ==
    IF phase = "raised" THEN 1
    ELSE IF phase = "returned" THEN 0
    ELSE -1


\* ------------------------------------------------------------------------
\* The source texts the model runs.  Words are written apart and joined by
\* single spaces; RawTexts are written character by character.

V(c) == <<c>>
Fn(c) == CALL \o <<c>>
Pr(c) == PRINT \o <<c>>
Quote(str) == <<"\"">> \o str \o <<"\"">>
Src(words) == Join(words, <<SP>>)

\* the largest argument value of the arithmetic scenarios
MaxArg == 4

\* Scenario A: fn{ $add a b  ret a [+] b }fn   x := $add m n   *x
ScenarioA(m, n) ==
    Src(<< FUNC_START, CALL \o <<"a", "d", "d">>, V("a"), V("b"),
           RETURN, V("a"), ADD, V("b"), FUNC_END,
           V("x"), ASSIGN, CALL \o <<"a", "d", "d">>, NatStr(m), NatStr(n), Pr("x") >>)

\* Scenario B: x := 5   if{ ? x < 10 => *x else *x }if
ScenarioB ==
    Src(<< V("x"), ASSIGN, V("5"), IF_START, IF_COND, V("x"), LT, <<"1", "0">>, IF_THEN,
           Pr("x"), IF_ELSE, Pr("x"), IF_END >>)

\* Scenario C: try{ lam! "boom" catch e *e }try
ScenarioC ==
    Src(<< TRY_START, THROW, Quote(<<"b", "o", "o", "m">>), CATCH, V("e"), Pr("e"), TRY_END >>)

\* Scenario D: fn{ $f try{ ret 1 finally *"k" }try }fn   x := $f   *x
ScenarioD ==
    Src(<< FUNC_START, Fn("f"), TRY_START, RETURN, V("1"), FINALLY, PRINT \o Quote(<<"k">>),
           TRY_END, FUNC_END, V("x"), ASSIGN, Fn("f"), Pr("x") >>)

\* Scenario E: $ghost
ScenarioE == Src(<< CALL \o <<"g", "h", "o", "s", "t">> >>)

\* one try block: a body, an optional catch clause, an optional finally clause,
\* then a print; each clause prints, throws or returns
TryBodies ==
    { << Pr("1") >>, << THROW, Quote(<<"b">>) >>, << Pr("1"), THROW, V("7") >>,
      << RETURN, V("1") >> }
CatchClauses ==
    { << >>, << CATCH, V("e"), Pr("e") >>, << CATCH, V("e"), THROW, Quote(<<"c">>) >> }
FinallyClauses ==
    { << >>, << FINALLY, Pr("2") >>, << FINALLY, THROW, Quote(<<"f">>) >> }

TryProgram(body, catch, fin) ==
    <<TRY_START>> \o body \o catch \o fin \o <<TRY_END, Pr("9")>>

\* the try blocks at top level
TryTexts ==
    { Src(TryProgram(b, c, f)) : b \in TryBodies, c \in CatchClauses, f \in FinallyClauses }

\* the try blocks as the body of a function:  fn{ $f <try block> }fn  x := $f  *x
TryInFunctionTexts ==
    { Src(<<FUNC_START, Fn("f")>> \o TryProgram(b, c, f)
          \o <<FUNC_END, V("x"), ASSIGN, Fn("f"), Pr("x")>>) :
        b \in TryBodies, c \in CatchClauses, f \in FinallyClauses }

\* a try block whose body holds another try block, then a command
InnerTry ==
    { << TRY_START, Pr("1"), TRY_END >>,
      << TRY_START, THROW, Quote(<<"a">>), CATCH, V("e"), Pr("e"), TRY_END >>,
      << TRY_START, Pr("1"), FINALLY, Pr("2"), TRY_END >>,
      << TRY_START, THROW, Quote(<<"a">>), CATCH, V("e"), Pr("e"), FINALLY, Pr("2"), TRY_END >> }
AfterInner == { << Pr("3") >>, << THROW, Quote(<<"b">>) >> }
OuterClauses ==
    { << >>, << FINALLY, Pr("4") >>, << CATCH, V("z"), Pr("z") >>,
      << CATCH, V("z"), Pr("z"), FINALLY, Pr("4") >> }

NestedTryTexts ==
    { Src(<<TRY_START>> \o inner \o after \o outer \o <<TRY_END, Pr("9")>>) :
        inner \in InnerTry, after \in AfterInner, outer \in OuterClauses }

\* a conditional block: a condition, a then-branch that may hold another
\* conditional block, an optional else clause, then a print
Conditions == { << V("1"), LT, V("2") >>, << V("2"), LT, V("1") >>, << V("0") >>, << V("u") >> }
ThenBranches ==
    { << Pr("1") >>,
      << IF_START, IF_COND, V("1"), IF_THEN, Pr("3"), IF_ELSE, Pr("4"), IF_END, Pr("1") >>,
      << IF_START, IF_COND, V("0"), IF_THEN, Pr("3"), IF_ELSE, Pr("4"), IF_END >>,
      << IF_START, IF_COND, V("0"), IF_THEN, Pr("3"), IF_END, Pr("1") >> }
ElseClauses == { << >>, << IF_ELSE, Pr("2") >> }

IfTexts ==
    { Src(<<IF_START, IF_COND>> \o cond \o <<IF_THEN>> \o th \o el \o <<IF_END, Pr("9")>>) :
        cond \in Conditions, th \in ThenBranches, el \in ElseClauses }


\* fn{ $f a b *a }fn  followed by one call of $f and the command after it
DefF == << FUNC_START, Fn("f"), V("a"), V("b"), Pr("a"), FUNC_END >>
Calls ==
    { << Fn("f"), V("1"), V("2") >>, << Fn("f"), V("1") >>, << Fn("f"), V("1"), V("2"), V("3") >>,
      << Fn("f") >>, << Fn("h"), V("1"), V("2") >>, << Fn("f"), V("1"), V("u") >>,
      << V("x"), ASSIGN, Fn("f"), V("1"), V("2") >> }
Followers ==
    { << >>, << Pr("5") >>, << IF_START, IF_COND, V("1"), IF_THEN, Pr("5"), IF_END >>,
      << TRY_START, Pr("5"), TRY_END >>, << THROW, Quote(<<"t">>) >>, << RETURN, V("1") >>,
      << V("y"), ASSIGN, V("5") >>, << Fn("f"), V("3"), V("4") >>, << FUNC_END >> }

CallTexts ==
    { Src(DefF \o call \o follower) : call \in Calls, follower \in Followers }
    \cup { Src(DefF \o << Fn("f"), V("1"), V("2"), Pr("5"),
                          Fn("f"), V("1"), V("2"), Fn("f"), V("3"), V("4") >>) }

\* the call of $f as the last command of a function body and of a branch
CallInBodyTexts ==
    { Src(DefF \o << FUNC_START, Fn("g"), Pr("1"), Fn("f"), V("1"), V("2"), FUNC_END, Fn("g") >>),
      Src(DefF \o << IF_START, IF_COND, V("1"), IF_THEN, Fn("f"), V("1"), V("2"), IF_ELSE,
                     Pr("0"), IF_END >>),
      Src(DefF \o << TRY_START, Fn("f"), V("1"), V("2"), CATCH, V("e"), Pr("e"), FINALLY,
                     Pr("0"), TRY_END >>) }

\* scopes: what a function body reads and writes
ScopeTexts ==
    { \* x := 1  *x  fn{ $f a  x := a  y := a  *x *y }fn  $f 2  *x *y
      Src(<< V("x"), ASSIGN, V("1"), Pr("x"), FUNC_START, Fn("f"), V("a"), V("x"), ASSIGN, V("a"),
             V("y"), ASSIGN, V("a"), Pr("x"), Pr("y"), FUNC_END, Fn("f"), V("2"),
             Pr("x"), Pr("y") >>),
      \* fn{ $g z := 5 }fn  fn{ $f *"s" $g *z }fn  $f
      Src(<< FUNC_START, Fn("g"), V("z"), ASSIGN, V("5"), FUNC_END,
             FUNC_START, Fn("f"), PRINT \o Quote(<<"s">>), Fn("g"), Pr("z"), FUNC_END, Fn("f") >>),
      \* x := 1  *x  fn{ $g *x }fn  fn{ $f x *x $g }fn  $f 7  *x
      Src(<< V("x"), ASSIGN, V("1"), Pr("x"), FUNC_START, Fn("g"), Pr("x"), FUNC_END,
             FUNC_START, Fn("f"), V("x"), Pr("x"), Fn("g"), FUNC_END, Fn("f"), V("7"), Pr("x") >>),
      \* x := 1  *x  fn{ $f a  x := a [+] x  *x  try{ lam! x catch x *x }try  *x }fn  $f 2  *x
      Src(<< V("x"), ASSIGN, V("1"), Pr("x"), FUNC_START, Fn("f"), V("a"), V("x"), ASSIGN, V("a"), ADD,
             V("x"), Pr("x"), TRY_START, THROW, V("x"), CATCH, V("x"), Pr("x"), TRY_END,
             Pr("x"), FUNC_END, Fn("f"), V("2"), Pr("x") >>),
      \* x := 1  *x  fn{ $g  a := 9  x := 8  z := 1 }fn  fn{ $f a  *a $g *a *x *z }fn  $f 2  *x
      Src(<< V("x"), ASSIGN, V("1"), Pr("x"),
             FUNC_START, Fn("g"), V("a"), ASSIGN, V("9"), V("x"), ASSIGN, V("8"),
             V("z"), ASSIGN, V("1"), FUNC_END,
             FUNC_START, Fn("f"), V("a"), Pr("a"), Fn("g"), Pr("a"), Pr("x"), Pr("z"), FUNC_END,
             Fn("f"), V("2"), Pr("x") >>),
      \* fn{ $t ret 1 }fn  fn{ $f a  y := $t  a := $t  *a *y }fn  $f 0  *y
      Src(<< FUNC_START, Fn("t"), RETURN, V("1"), FUNC_END,
             FUNC_START, Fn("f"), V("a"), V("y"), ASSIGN, Fn("t"), V("a"), ASSIGN, Fn("t"),
             Pr("a"), Pr("y"), FUNC_END, Fn("f"), V("0"), Pr("y") >>) }

\* parameter binding: arguments named like parameters
BindTexts ==
    { \* x := 1  y := 2  *x  fn{ $f y x *y *x }fn  $f x y
      Src(<< V("x"), ASSIGN, V("1"), V("y"), ASSIGN, V("2"), Pr("x"),
             FUNC_START, Fn("f"), V("y"), V("x"), Pr("y"), Pr("x"), FUNC_END,
             Fn("f"), V("x"), V("y") >>),
      \* fn{ $g p q *p *q }fn  fn{ $f q p *q $g q p }fn  $f 1 2
      Src(<< FUNC_START, Fn("g"), V("p"), V("q"), Pr("p"), Pr("q"), FUNC_END,
             FUNC_START, Fn("f"), V("q"), V("p"), Pr("q"), Fn("g"), V("q"), V("p"), FUNC_END,
             Fn("f"), V("1"), V("2") >>),
      \* fn{ $d a a *a }fn  $d 1 2
      Src(<< FUNC_START, Fn("d"), V("a"), V("a"), Pr("a"), FUNC_END, Fn("d"), V("1"), V("2") >>),
      \* y := 3  *y  fn{ $f a b *a *b *y }fn  $f y "s"
      Src(<< V("y"), ASSIGN, V("3"), Pr("y"), FUNC_START, Fn("f"), V("a"), V("b"), Pr("a"), Pr("b"),
             Pr("y"), FUNC_END, Fn("f"), V("y"), Quote(<<"s">>) >>) }

\* loading, and commands that are no commands
LoadTexts ==
    { << >>,
      Src(<< FUNC_START, V("x"), FUNC_END, Pr("1") >>),
      Src(<< FUNC_START, FUNC_END >>),
      Src(<< Pr("1"), FUNC_START, Fn("f"), Pr("2") >>),
      Src(<< Pr("1"), FUNC_END, Pr("2") >>),
      Src(<< Pr("1"), IF_END, Pr("2") >>),
      Src(<< Pr("1"), IF_ELSE, Pr("2") >>),
      Src(<< Pr("1"), TRY_END, Pr("2") >>),
      Src(<< V("x") >>),
      Src(<< PRINT >>),
      Src(<< THROW >>),
      Src(<< RETURN >>),
      Src(<< V("x"), ASSIGN >>),
      Src(<< IF_START, Pr("1") >>),
      Src(<< IF_START, Pr("1"), IF_END >>),
      Src(<< IF_START, IF_COND, Pr("1"), IF_END >>),
      Src(<< IF_START, IF_COND, IF_THEN, Pr("1"), IF_END >>),
      Src(<< TRY_START, Pr("1") >>),
      Src(<< V("x"), ASSIGN, V("1"), ADD, Quote(<<"s">>) >>),
      \* if{ := 1  *9
      Src(<< IF_START, ASSIGN, V("1"), Pr("9") >>),
      \* fn{ $f ? [+] *1 }fn  $f 1 2
      Src(<< FUNC_START, Fn("f"), IF_COND, ADD, Pr("1"), FUNC_END, Fn("f"), V("1"), V("2") >>),
      \* try{ lam! "a" catch [+] *1 }try
      Src(<< TRY_START, THROW, Quote(<<"a">>), CATCH, ADD, Pr("1"), TRY_END >>),
      \* try{ if{ ? 1 => *1 catch e *e }try *9
      Src(<< TRY_START, IF_START, IF_COND, V("1"), IF_THEN, Pr("1"), CATCH, V("e"), Pr("e"),
             TRY_END, Pr("9") >>),
      \* try{ if{ ? 1 => *1 finally *2 }try *9
      Src(<< TRY_START, IF_START, IF_COND, V("1"), IF_THEN, Pr("1"), FINALLY, Pr("2"),
             TRY_END, Pr("9") >>),
      \* fn{ $f try{ *1 }fn  try{ $f catch e *e }try *9
      Src(<< FUNC_START, Fn("f"), TRY_START, Pr("1"), FUNC_END,
             TRY_START, Fn("f"), CATCH, V("e"), Pr("e"), TRY_END, Pr("9") >>),
      \* fn{ $t ret 1 }fn  if{ ? $t => *1 }if
      Src(<< FUNC_START, Fn("t"), RETURN, V("1"), FUNC_END,
             IF_START, IF_COND, Fn("t"), IF_THEN, Pr("1"), IF_END >>),
      \* fn{ $r *1 $r }fn  $r
      Src(<< FUNC_START, Fn("r"), Pr("1"), Fn("r"), FUNC_END, Fn("r") >>) }

\* expressions of every shape, as the value of an assignment and as a condition
ExprTexts ==
    { Src(<< V("x"), ASSIGN, V("1"), V("2"), Pr("x") >>),
      Src(<< V("x"), ASSIGN, V("1"), IF_COND, V("2"), Pr("x") >>),
      Src(<< V("x"), ASSIGN, V("u"), IF_COND, V("2"), Pr("x") >>),
      Src(<< V("x"), ASSIGN, V("1"), V("2"), V("3"), V("4"), Pr("x") >>),
      Src(<< V("x"), ASSIGN, V("2"), SUB, V("1"), Pr("x") >>),
      Src(<< V("x"), ASSIGN, V("2"), EQ, Quote(<<"2">>), Pr("x") >>),
      \* fn{ $i a ret a }fn  x := $i 5  *x
      Src(<< FUNC_START, Fn("i"), V("a"), RETURN, V("a"), FUNC_END,
             V("x"), ASSIGN, Fn("i"), V("5"), Pr("x") >>),
      \* fn{ $i a ret a }fn  if{ ? $i 1 => *1 }if
      Src(<< FUNC_START, Fn("i"), V("a"), RETURN, V("a"), FUNC_END,
             IF_START, IF_COND, Fn("i"), V("1"), IF_THEN, Pr("1"), IF_END >>),
      Src(<< IF_START, IF_COND, V("1"), V("2"), IF_THEN, Pr("1"), IF_END, Pr("9") >>),
      Src(<< IF_START, IF_COND, V("1"), ADD, IF_THEN, Pr("1"), IF_END, Pr("9") >>),
      \* fn{ $f a b  x := a }fn  x := 1  *x  $f x 2  y := 3  *y  $f 1 2
      Src(<< FUNC_START, Fn("f"), V("a"), V("b"), V("x"), ASSIGN, V("a"), FUNC_END,
             V("x"), ASSIGN, V("1"), Pr("x"), Fn("f"), V("x"), V("2"),
             V("y"), ASSIGN, V("3"), Pr("y"), Fn("f"), V("1"), V("2") >>),
      \* try{ x := 1 2 catch e *e }try  x := 1 ? 2
      Src(<< TRY_START, V("x"), ASSIGN, V("1"), V("2"), CATCH, V("e"), Pr("e"), TRY_END,
             V("x"), ASSIGN, V("1"), IF_COND, V("2") >>) }

\* texts written character by character: glyphs next to names, a comment, lines,
\* markers apart from the names they prefix
RawTexts ==
    { << "x", ":=", "5", " ", "#", "c", NL, "*", " ", "x", NL >>,
      << "#", "x", NL, " ", NL >>,
      << "fn{", "$", "f", " ", "a", "ret", "a", "}fn", NL, "*", "1", " ", "$", " ", "f", " ", "2" >>,
      \* runs of markers: * * x, $ $ f, and x := 1 * $ x
      << "*", " ", "*", " ", "x" >>,
      << "$", " ", "$", " ", "f" >>,
      << "x", " ", ":=", " ", "1", NL, "*", " ", "$", " ", "x" >> }

Programs ==
    { ScenarioA(m, n) : m \in 0..MaxArg, n \in 0..MaxArg }
    \cup { ScenarioB, ScenarioC, ScenarioD, ScenarioE }
    \cup TryTexts \cup TryInFunctionTexts \cup NestedTryTexts \cup IfTexts
    \cup CallTexts \cup CallInBodyTexts \cup ScopeTexts \cup BindTexts
    \cup LoadTexts \cup ExprTexts \cup RawTexts

\* ------------------------------------------------------------------------
\* __init__, lines 41-54: a runtime on a source text, before run()
Init ==
    /\ source_code \in Programs
    /\ phase = "init"
    /\ tokens = << >>
    /\ i = 0
    /\ global_tokens = << >>
    /\ functions = EmptyDict
    /\ symbol_table = EmptyDict
    /\ scopes = << >>
    /\ stack = << >>
    /\ sig = NoSig
    /\ output = << >>
    /\ hist = << >>
    /\ log = << >>

Next ==
    \/ StartRun
    \/ DefineFunction
    \/ CopyGlobalToken
    \/ StartPass2
    \/ EndOfTokens
    \/ BlockEnd
    \/ PrintCommand
    \/ Throw
    \/ Return
    \/ StandaloneCall
    \/ StandaloneCallDone
    \/ Assign
    \/ AssignCallDone
    \/ IfBlock
    \/ IfCondCallDone
    \/ IfBodyDone
    \/ TryBlock
    \/ TryBodyDone
    \/ TryBodyRaised
    \/ CatchBodyDone
    \/ FinallyBodyDone
    \/ FunctionCallDone
    \/ Propagate
    \/ Unexpected
    \/ FinishRun

Spec == Init /\ [][Next]_vars


\* ------------------------------------------------------------------------
\* The claims.

Events(op) == { k \in 1..Len(log) : log[k].op = op }

\* the exception is an Error signal: any exception but the Return signal
IsError(e) == e.cls \notin {"none", "StopIteration"}

\* The clause marker of the block that starts at position start and ends at
\* position end: the first position between them that holds `marker` at nesting
\* depth 1 of the start_token/end_token pairs; -1 when the block has no such clause.
OwnMarker(toks, start, end, marker, start_token, end_token) ==
    LET Depth(k) == Cardinality({j \in start..k : At(toks, j) = start_token})
                    - Cardinality({j \in start..k : At(toks, j) = end_token})
        own == {k \in (start + 1)..(end - 1) : At(toks, k) = marker /\ Depth(k) = 1}
    IN  IF own = {} THEN -1 ELSE CHOOSE k \in own : \A j \in own : k <= j

OwnCatch(ev) == OwnMarker(ev.tokens, ev.i, ev.try_end_index, CATCH, TRY_START, TRY_END)
OwnFinally(ev) == OwnMarker(ev.tokens, ev.i, ev.try_end_index, FINALLY, TRY_START, TRY_END)

\* the nested blocks an execution of a try block ran in the given role
Ran(ev, role) == SelectSeq(ev.ran, LAMBDA r : r.role = role)

\* C1: for every source text, run() returns normally: no exception escapes run().
C1_RunNeverRaises == phase # "raised"

\* C2: a Return raised by the try body of a try block inside a function call
\* never runs the catch body and never binds the catch variable; the finally
\* clause (if present) runs and the Return goes on to the function call.
C2_ReturnPassesTryBlock ==
    /\ \A k \in Events("except") :
          (log[k].depth >= 1 /\ log[k].exc.cls = "StopIteration") => ~log[k].caught
    /\ \A k \in Events("try_exit") :
          (log[k].depth >= 1 /\ log[k].body_exc.cls = "StopIteration")
          => /\ Ran(log[k], "catch") = << >>
             /\ log[k].exc = log[k].body_exc \/ Ran(log[k], "finally") # << >>

\* C3: every execution of a try block that has a finally clause runs that
\* block's own finally body exactly once, as the last thing it runs, at any
\* nesting depth.
C3_FinallyRunsExactlyOnce ==
    \A k \in Events("try_exit") :
        OwnFinally(log[k]) # -1
        => /\ Ran(log[k], "finally")
                = <<[role |-> "finally", start |-> OwnFinally(log[k]) + 1]>>
           /\ log[k].ran[Len(log[k].ran)].role = "finally"

\* C4: when the try body raises an Error, a try block with a catch clause of
\* its own binds the message to that clause's variable and runs that clause's
\* body; a try block without a catch clause of its own runs no catch body and
\* the Error leaves the block (after the finally clause, which may replace it).
C4_ErrorHandledByOwnCatch ==
    /\ \A k \in Events("except") :
          IsError(log[k].exc)
          => IF OwnCatch(log[k]) # -1
             THEN /\ log[k].caught
                  /\ log[k].catch_error_var = At(log[k].tokens, OwnCatch(log[k]) + 1)
             ELSE ~log[k].caught
    /\ \A k \in Events("try_exit") :
          IsError(log[k].body_exc)
          => IF OwnCatch(log[k]) # -1
             THEN Ran(log[k], "catch")
                    = <<[role |-> "catch", start |-> OwnCatch(log[k]) + 2]>>
             ELSE /\ Ran(log[k], "catch") = << >>
                  /\ IsError(log[k].exc)
                  /\ log[k].exc = log[k].body_exc \/ Ran(log[k], "finally") # << >>


\* C5: an assignment executed in a function scope writes exactly one table:
\* the active scope alone when the target name is already a key of it, the
\* global table alone otherwise.
C5_AssignWritesOneTable ==
    [][ (/\ Len(log') = Len(log) + 1
         /\ log'[Len(log')].op = "assign"
         /\ log'[Len(log')].written # {}
         /\ Len(scopes) >= 1)
        => LET ev == log'[Len(log')]
               scope == scopes[Len(scopes)]
           IN  IF ev.target_var \in DOMAIN scope
               THEN /\ symbol_table' = symbol_table
                    /\ scopes' = [scopes EXCEPT ![Len(scopes)] =
                                      DictSet(scope, ev.target_var, ev.v)]
               ELSE /\ scopes' = scopes
                    /\ symbol_table' = DictSet(symbol_table, ev.target_var, ev.v)
      ]_vars

\* a function body has assigned to a name of its scope and to a name outside it
C5_Witness ==
    /\ \E k \in Events("assign") :
          log[k].depth >= 1 /\ log[k].written # {} /\ log[k].local
    /\ \E k \in Events("assign") :
          log[k].depth >= 1 /\ log[k].written # {} /\ ~log[k].local

\* the token is a literal: _get_value never looks it up
IsLiteral(token) ==
    \/ StartsWith(token, <<"\"">>) /\ EndsWith(token, <<"\"">>)
    \/ IsIntLiteral(token)

\* the scope of the innermost call as built at call entry, overlaid by the
\* call's own local writes
KnownAtEntry == DictUpdate(hist[Len(hist)].snap, hist[Len(hist)].own)

\* a read of name that sees the snapshot and the own local writes only
SnapshotRead(name) ==
    IF name \in DOMAIN KnownAtEntry THEN Ok(KnownAtEntry[name])
    ELSE Raise(Error("Undefined variable/symbol: ", name))

\* a read of name that sees the snapshot and the own local writes and, for a
\* name that is in neither, the global table as it is now
ScopeThenGlobalRead(name) ==
    IF name \in DOMAIN KnownAtEntry THEN Ok(KnownAtEntry[name])
    ELSE IF name \in DOMAIN symbol_table THEN Ok(symbol_table[name])
    ELSE Raise(Error("Undefined variable/symbol: ", name))

\* the name the command at the running position of a function body reads:
\* the suffix of a print, the token after a throw or a return; << >> if none
NameRead ==
    IF ~(Running /\ Len(scopes) >= 1) THEN << >>
    ELSE LET cmd == Command(Top.tokens, Top.i)
             name == IF cmd = "print" THEN SliceFrom(At(Top.tokens, Top.i), 1)
                     ELSE IF cmd \in {"throw", "return"} /\ Top.i + 1 < Len(Top.tokens)
                          THEN At(Top.tokens, Top.i + 1)
                     ELSE << >>
         IN  IF IsLiteral(name) THEN << >> ELSE name

\* the command at the running position reads NameRead and gets r: printed by
\* a print, raised by a throw, returned by a return; a failed read is raised
ReadYields(r) ==
    IF ~r.ok THEN output' = output /\ sig' = ExcSig(r.exc)
    ELSE LET cmd == Command(Top.tokens, Top.i) IN
         IF cmd = "print" THEN output' = Append(output, PyStr(r.v)) /\ sig' = NoSig
         ELSE IF cmd = "throw" THEN output' = output /\ sig' = ExcSig(Exc("Exception", r.v))
         ELSE output' = output /\ sig' = ExcSig(Exc("StopIteration", r.v))

\* C6 as stated: every read of a name in a function body is determined by the
\* scope snapshot built at call entry plus the callee's own local writes; a
\* name the global table got after the call started is not readable.
C6_ReadsSeeSnapshotOnly ==
    [][ NameRead # << >> => ReadYields(SnapshotRead(NameRead)) ]_vars

\* C6, amended: a read of a name that is a key of the callee's scope (the
\* snapshot built at call entry plus the callee's own local writes) yields the
\* scope's value whatever the global table holds; a read of a name that is not
\* in the scope yields the value the global table holds at the time of the
\* read, and fails only if the global table does not hold the name either.
C6_ReadsSeeScopeThenGlobal ==
    [][ NameRead # << >> => ReadYields(ScopeThenGlobalRead(NameRead)) ]_vars

\* a function body has just printed a name that its scope does not hold and
\* that the global table did not hold when the call started
C6_Witness ==
    /\ log # << >>
    /\ LET ev == log[Len(log)] IN
          /\ ev.op = "print"
          /\ ev.depth >= 1
          /\ Len(scopes) = ev.depth
          /\ ev.r.ok
          /\ ~IsLiteral(ev.var_name)
          /\ ev.var_name \notin DOMAIN hist[Len(hist)].snap
          /\ ev.var_name \notin DOMAIN scopes[Len(scopes)]
          /\ output # << >>
          /\ output[Len(output)] = PyStr(symbol_table[ev.var_name])

\* the fault of a call that did not reach the function body
FunctionNotFound(e) ==
    e.cls = "Exception" /\ e.arg.t = "str" /\ e.arg.s # << >>
    /\ e.arg.s[1] = "Function not found: "
ParameterError(e) ==
    e.cls = "Exception" /\ e.arg.t = "str" /\ e.arg.s # << >>
    /\ e.arg.s[1] = "Parameter error when calling "
CallFault(e) == FunctionNotFound(e) \/ ParameterError(e)

\* the calls written as a command or as the expression of an assignment
WrittenCalls ==
    { k \in Events("call") : log[k].call_start \in {log[k].i, log[k].i + 2} }

\* the number of argument tokens written after the call-prefixed name: the
\* tokens up to the first one that begins a command or ends the block
RECURSIVE CountArgs(_, _)
CountArgs(toks, p) ==
    IF Command(toks, p) # "unexpected" THEN 0 ELSE 1 + CountArgs(toks, p + 1)

WrittenArgs(ev) == CountArgs(ev.tokens, ev.call_start + 1)

\* what follows the written arguments of the call
Follower(ev) == Command(ev.tokens, ev.call_start + 1 + WrittenArgs(ev))

\* the written arguments of the call resolve in the caller's scope
Resolvable(ev) ==
    \A k \in 1..WrittenArgs(ev) :
        GetValue(At(ev.tokens, ev.call_start + k), ev.scope, ev.symbol_table).ok

\* the call names a function that is defined with two parameters
TwoParams(ev) ==
    /\ ev.call_tokens[1] \in DOMAIN functions
    /\ Len(functions[ev.call_tokens[1]].params) = 2

\* a call that faulted ran no command of a function body
NoBodyRan(k) == k = Len(log) \/ log[k + 1].depth <= log[k].depth

\* C7 as stated: a call of a two-parameter function written with exactly two
\* resolvable argument tokens succeeds without a call fault whatever command
\* follows it, another standalone call included; a call of an undefined name
\* fails with function-not-found and a call with another number of arguments
\* fails with a parameter-count fault, before any body command runs.
C7_TwoArgumentsAlwaysSucceed ==
    \A k \in WrittenCalls :
        LET ev == log[k] IN
        /\ (TwoParams(ev) /\ WrittenArgs(ev) = 2 /\ Resolvable(ev)) => ~CallFault(ev.exc)
        /\ ev.call_tokens[1] \notin DOMAIN functions
           => FunctionNotFound(ev.exc) /\ NoBodyRan(k)
        /\ (TwoParams(ev) /\ WrittenArgs(ev) # 2) => ParameterError(ev.exc) /\ NoBodyRan(k)

\* C7, amended: a call of a two-parameter function written with exactly two
\* resolvable argument tokens succeeds without a call fault when it is
\* followed by a print, if, try, throw, return, assignment, block terminator
\* or the end of the tokens; when it is followed by another standalone call,
\* the tokens of that call are taken as further arguments and the call fails
\* with a parameter-count fault.  A call of an undefined name fails with
\* function-not-found, and a call written with another number of arguments
\* and not followed by a standalone call fails with a parameter-count fault,
\* in every faulting case before any body command runs.
C7_TwoArgumentsSucceedUnlessCallFollows ==
    \A k \in WrittenCalls :
        LET ev == log[k] IN
        /\ (TwoParams(ev) /\ WrittenArgs(ev) = 2 /\ Resolvable(ev) /\ Follower(ev) # "call")
           => ev.ok /\ ~CallFault(ev.exc)
        /\ (TwoParams(ev) /\ WrittenArgs(ev) = 2 /\ Follower(ev) = "call")
           => ParameterError(ev.exc) /\ NoBodyRan(k)
        /\ ev.call_tokens[1] \notin DOMAIN functions
           => FunctionNotFound(ev.exc) /\ NoBodyRan(k)
        /\ (TwoParams(ev) /\ WrittenArgs(ev) # 2 /\ Follower(ev) # "call")
           => ParameterError(ev.exc) /\ NoBodyRan(k)

\* one run has called a two-parameter function with two arguments followed by
\* a print, which succeeded, and with two arguments followed by a standalone
\* call, which faulted
C7_Witness ==
    /\ \E k \in WrittenCalls :
          /\ TwoParams(log[k]) /\ WrittenArgs(log[k]) = 2 /\ Resolvable(log[k])
          /\ Follower(log[k]) = "print" /\ log[k].ok
    /\ \E k \in WrittenCalls :
          /\ TwoParams(log[k]) /\ WrittenArgs(log[k]) = 2 /\ Resolvable(log[k])
          /\ Follower(log[k]) = "call" /\ ParameterError(log[k].exc)

\* C8: the program that defines  fn{ $add a b  ret a [+] b }fn  and runs
\* x := $add m n  *x  prints m + n (7 for m = 3, n = 4).
C8_AddPrintsSum ==
    \A m, n \in 0..MaxArg :
        (phase = "returned" /\ source_code = ScenarioA(m, n)) => output = <<NatStr(m + n)>>

OwnElse(ev) == OwnMarker(ev.tokens, ev.i, ev.if_end_index, IF_ELSE, IF_START, IF_END)

\* C9: a conditional block runs its then-branch when the condition is truthy,
\* its own else-branch when the condition is falsy and the block has an else
\* clause, and no command when the condition is falsy and the block has no
\* else clause, at any nesting depth.
C9_IfRunsItsOwnBranch ==
    \A k \in Events("if") :
        LET ev == log[k]
            then_index == Index(ev.tokens, IF_THEN, ev.i, ev.if_end_index)
        IN  ev.branch_start =
                IF ev.cond THEN then_index + 1
                ELSE IF OwnElse(ev) # -1 THEN OwnElse(ev) + 1
                ELSE -1

\* the scope a call builds: the global table, overlaid by the caller's scope,
\* overlaid by the parameters, each bound to the value its argument has in
\* the caller's scope (a repeated parameter keeps its last argument)
ExpectedScope(call_tokens, scope, st, fns) ==
    LET params == fns[call_tokens[1]].params
        args == Tail(call_tokens)
        base == DictUpdate(st, scope)
        Last(x) == CHOOSE k \in 1..Len(params) :
                       params[k] = x /\ \A j \in (k + 1)..Len(params) : params[j] # x
    IN  [x \in DOMAIN base \cup Range(params) |->
            IF x \in Range(params) THEN GetValue(args[Last(x)], scope, st).v ELSE base[x]]

\* C10: the callee's initial scope is the global table at call time overlaid
\* by the caller's active scope overlaid by the parameters bound by position,
\* each argument resolved in the caller's scope and never in the partly built
\* callee scope.
C10_CalleeScopeAtEntry ==
    [][ Len(scopes') = Len(scopes) + 1
        => scopes'[Len(scopes')] =
               ExpectedScope(stack'[Len(stack') - 1].tokens, ActiveScope,
                             symbol_table, functions)
      ]_vars

\* a call has bound a parameter whose name is the variable name of a later
\* argument, to a value other than the one that variable has in the caller
C10_Witness ==
    \E k \in Events("call") :
        LET ev == log[k]
            args == Tail(ev.call_tokens)
        IN  /\ ev.ok
            /\ \E p, q \in 1..Len(args) :
                  /\ p < q
                  /\ functions[ev.call_tokens[1]].params[p] = args[q]
                  /\ ~IsLiteral(args[q])
                  /\ ev.func_scope[args[q]] # GetValue(args[q], ev.scope, ev.symbol_table).v
                  /\ ev.func_scope[functions[ev.call_tokens[1]].params[q]]
                        = GetValue(args[q], ev.scope, ev.symbol_table).v


\* the number of function-block starts minus the number of function-block
\* ends among the first k tokens
FuncDepth(toks, k) ==
    Cardinality({j \in 1..k : toks[j] = FUNC_START})
    - Cardinality({j \in 1..k : toks[j] = FUNC_END})

\* a function-block start with no matching end
UnmatchedFuncStart(toks) ==
    \E k \in 1..Len(toks) :
        /\ toks[k] = FUNC_START
        /\ \A j \in k..Len(toks) : FuncDepth(toks, j) > FuncDepth(toks, k - 1)

\* a function-block end with no matching start
UnmatchedFuncEnd(toks) ==
    \E k \in 1..Len(toks) :
        /\ toks[k] = FUNC_END
        /\ \A j \in 0..(k - 1) : FuncDepth(toks, j) >= FuncDepth(toks, k - 1)
        /\ \A j \in 1..(k - 1) :
              toks[j] = FUNC_START => \E m \in j..(k - 1) :
                                          FuncDepth(toks, m) = FuncDepth(toks, j - 1)

\* an outermost function block whose first token is not a call-prefixed name
NamelessFunc(toks) ==
    \E k \in 1..(Len(toks) - 1) :
        /\ toks[k] = FUNC_START
        /\ FuncDepth(toks, k - 1) = 0
        /\ ~StartsWith(toks[k + 1], CALL)

LoadFaulty(toks) ==
    UnmatchedFuncStart(toks) \/ UnmatchedFuncEnd(toks) \/ NamelessFunc(toks)

\* the line run() prints for a fault of the loader
IsLoadReport(line) ==
    line # << >> /\ line[1] = "!!! PARSE ERROR (Function Definition) !!!"

\* C11: when the token sequence holds an unmatched function-block marker
\* (start without end, or end without start) or a function block whose first
\* token is not a call-prefixed name, the run is aborted with a load fault
\* before any global command executes: the program prints nothing, no
\* variable is written, and the run ends with the load fault.
C11_LoadFaultAbortsRun ==
    LoadFaulty(tokens)
    => /\ symbol_table = EmptyDict
       /\ \A k \in 1..Len(output) : IsLoadReport(output[k])
       /\ phase = "returned" => output # << >>


\* the expression slice the command at the running position hands to
\* _evaluate_expression (lines 322 and 359); << >> when it hands none
Evaluated ==
    IF ~Running THEN << >>
    ELSE IF Command(Top.tokens, Top.i) = "assign"
    THEN Slice(Top.tokens, Top.i + 2, AssignScan(Top.tokens, Top.i + 2))
    ELSE IF Command(Top.tokens, Top.i) = "if"
    THEN LET end == FindMatchingEnd(Top.tokens, Top.i, IF_START, IF_END)
             cond_index == Index(Top.tokens, IF_COND, Top.i, end.v.n)
             then_index == Index(Top.tokens, IF_THEN, cond_index, end.v.n)
         IN  IF ~end.ok \/ cond_index = -1 \/ then_index = -1 THEN << >>
             ELSE Slice(Top.tokens, cond_index + 1, then_index)
    ELSE << >>

Operators == {ADD, SUB, LT, EQ}

\* a slice of length 2, or of length 3 whose middle token is no operator
Malformed(expr) == Len(expr) = 2 \/ (Len(expr) = 3 /\ expr[2] \notin Operators)

\* the step raises an Error out of the running command and writes no variable
EvaluationFails ==
    /\ sig'.k = "exc"
    /\ sig'.exc.cls = "Exception"
    /\ stack' = Pop(stack)
    /\ symbol_table' = symbol_table
    /\ scopes' = scopes

\* C12 as stated: evaluating a slice of length 0 fails, and evaluating a slice
\* of length 2, or of length 3 whose middle token is none of the four
\* operators, fails with an evaluation Error for every choice of tokens.
C12_MalformedSlicesFail ==
    [][ /\ ~EvaluateExpression(<< >>, ActiveScope, symbol_table).ok
        /\ Malformed(Evaluated) => EvaluationFails
      ]_vars

\* C12, amended: evaluating a slice of length 0 fails; evaluating a slice of
\* length 2, or of length 3 whose middle token is none of the four operators,
\* fails with an evaluation Error when its first token is not call-prefixed.
\* A slice whose first token is call-prefixed is a function call whatever its
\* length, and yields the value of the call when the call succeeds.
C12_MalformedNonCallSlicesFail ==
    [][ /\ ~EvaluateExpression(<< >>, ActiveScope, symbol_table).ok
        /\ (Malformed(Evaluated) /\ ~StartsWith(Evaluated[1], CALL)) => EvaluationFails
      ]_vars

\* the expression slice of the assignment that event ev records
AssignedExpr(ev) == Slice(ev.tokens, ev.i + 2, AssignScan(ev.tokens, ev.i + 2))

\* one run has failed to evaluate a slice of length 2 and a slice of length 3
\* with an unknown operator, neither of them a call
C12_Witness ==
    /\ \E k \in Events("assign") :
          /\ log[k].written = {}
          /\ Len(AssignedExpr(log[k])) = 2
          /\ ~StartsWith(AssignedExpr(log[k])[1], CALL)
    /\ \E k \in Events("assign") :
          /\ log[k].written = {}
          /\ Len(AssignedExpr(log[k])) = 3
          /\ AssignedExpr(log[k])[2] \notin Operators
          /\ ~StartsWith(AssignedExpr(log[k])[1], CALL)


\* the syntax fault of an if or try block start without its end marker
UnmatchedFault(e) ==
    \/ e = FindMatchingEnd(<< >>, 0, IF_START, IF_END).exc
    \/ e = FindMatchingEnd(<< >>, 0, TRY_START, TRY_END).exc

\* the event records an if or try block start that has no end marker
UnmatchedAt(ev) ==
    \/ ev.op = "if_fault" /\ ~FindMatchingEnd(ev.tokens, ev.i, IF_START, IF_END).ok
    \/ ev.op = "try_fault"

\* the line run() prints for an Error that reached it
IsErrorReport(line) == line # << >> /\ line[1] = "!!! UNHANDLED PROGRAM ERROR !!!"

\* C13: the syntax fault of an unmatched if/try block marker is never handled
\* by a try/catch of the running program (no catch body runs for it, no catch
\* variable is bound to its message), and it ends the run with a report.
C13_UnmatchedMarkerNotCatchable ==
    /\ \A k \in Events("except") : UnmatchedFault(log[k].exc) => ~log[k].caught
    /\ (phase = "returned" /\ \E k \in 1..Len(log) : UnmatchedAt(log[k]))
       => output # << >> /\ IsErrorReport(output[Len(output)])


\* the line run() prints for a Return that reached it
FatalReturnReport == <<"!!! FATAL ERROR: 'RETURN' (ret) command found in global scope.">>

\* C14: a Return executed at top level, also one nested in a top-level if or
\* try block, is never treated as an Error (no catch clause handles it) and
\* ends the run with the fatal RETURN report, unless the finally clause of an
\* enclosing try block replaces it by an Error.
C14_TopLevelReturnIsFatal ==
    \A k \in Events("return") :
        (log[k].depth = 0 /\ log[k].returned)
        => /\ \A j \in (k + 1)..Len(log) :
                 log[j].op = "except" => ~(log[j].exc.cls = "StopIteration" /\ log[j].caught)
           /\ (/\ phase = "returned"
               /\ ~\E j \in (k + 1)..Len(log) :
                      log[j].op = "try_exit" /\ IsError(log[j].exc))
              => output # << >> /\ output[Len(output)] = FatalReturnReport


\* the names the global table and the function scopes in progress hold
AllKeys == DOMAIN symbol_table \cup UNION { DOMAIN scopes[k] : k \in 1..Len(scopes) }

\* C15: in every reachable state no key of the global table or of a function
\* scope is a structural glyph: assignment targets, bound parameters and catch
\* variables never introduce one.
C15_NoGlyphKeys == \A key \in AllKeys : ~InList(key, STANDALONE_SYMBOLS)


\* the step writes a variable: the global table changes, a scope in progress
\* changes, or a new scope is built (a scope that is discarded is not written)
WritesVariables ==
    \/ symbol_table' # symbol_table
    \/ Len(scopes') > Len(scopes)
    \/ Len(scopes') = Len(scopes) /\ scopes' # scopes

\* the record the step adds to the log
StepEvent == log'[Len(log')]

\* the step is an assignment command, or the entry of a function call
AssignmentOrBinding ==
    /\ Len(log') = Len(log) + 1
    /\ \/ StepEvent.op = "assign"
       \/ StepEvent.op = "call" /\ Len(scopes') = Len(scopes) + 1 /\ symbol_table' = symbol_table

\* the step is a catch clause taking an Error: it binds the message to the
\* catch variable in the active scope and writes nothing else
CatchBinding ==
    /\ Len(log') = Len(log) + 1
    /\ StepEvent.op = "except"
    /\ StepEvent.caught
    /\ LET name == StepEvent.catch_error_var
           message == StrV(ExcStr(StepEvent.exc))
       IN  IF scopes = << >>
           THEN scopes' = scopes /\ symbol_table' = DictSet(symbol_table, name, message)
           ELSE /\ symbol_table' = symbol_table
                /\ scopes' = [scopes EXCEPT ![Len(scopes)] = DictSet(@, name, message)]

C17_FinallyErrorSupersedes ==
    [][ (/\ Waiting("finally_body")
         /\ sig.k = "exc"
         /\ IsError(sig.exc)
         /\ Top.c.pending # NoExc)
        => /\ sig' = ExcSig(sig.exc)
           /\ stack' = Pop(stack)
           /\ Len(log') = Len(log) + 2
           /\ StepEvent.op = "try_exit"
           /\ StepEvent.exc = sig.exc
      ]_vars

\* a try block in a function call has just been left by the Error of its
\* finally body while the Return of its try body was in flight
C17_Witness ==
    /\ log # << >>
    /\ LET ev == log[Len(log)] IN
          /\ ev.op = "try_exit"
          /\ ev.depth >= 1
          /\ ev.body_exc.cls = "StopIteration"
          /\ Ran(ev, "catch") = << >>
          /\ Ran(ev, "finally") # << >>
          /\ IsError(ev.exc)
          /\ sig = ExcSig(ev.exc)


\* C18: the program whose top level calls the undefined function $ghost
\* reports a function-not-found fault, and the process then ends without an
\* uncaught exception and with a non-zero exit status.
C18_GhostExitsNonZero ==
    (source_code = ScenarioE /\ phase \in {"returned", "raised"})
    => /\ phase = "returned"
       /\ output = << <<"!!! UNHANDLED PROGRAM ERROR !!!", NL>>
                      \o ExcStr(Error("Function not found: ",
                                      CALL \o <<"g", "h", "o", "s", "t">>)) >>
       /\ ExitStatus # 0


\* the token at position q ends an expression: it is a command starter
\* (print-prefixed, if-start, try-start, throw, return) or a block terminator,
\* or the token after it is the assignment glyph
StopsAt(toks, q) ==
    \/ StartsWith(At(toks, q), PRINT)
    \/ At(toks, q) \in {IF_START, TRY_START, THROW, RETURN}
    \/ At(toks, q) \in {FUNC_END, IF_END, TRY_END, IF_ELSE, CATCH, FINALLY}
    \/ (q + 1 < Len(toks) /\ At(toks, q + 1) = ASSIGN)

\* the first position from start on that ends an expression; the end of the
\* sequence when there is none
FirstStop(toks, start) ==
    LET stops == { q \in start..(Len(toks) - 1) : StopsAt(toks, q) }
    IN  IF stops = {} THEN Len(toks)
        ELSE CHOOSE q \in stops : \A r \in stops : q <= r

\* C19: the loader's parameter-list scan, the executor's standalone-call scan
\* and the executor's assignment-expression scan stop at the same index for
\* every token sequence and start position: the first position whose token is
\* a command starter or a block terminator or is followed by the assignment
\* glyph, or the end of the sequence.
C19_ScansAgree ==
    \A start \in 0..Len(tokens) :
        /\ ParamScan(tokens, start) = FirstStop(tokens, start)
        /\ CallScan(tokens, start) = FirstStop(tokens, start)
        /\ AssignScan(tokens, start) = FirstStop(tokens, start)

\* the run has used the three scans (a function with parameters is defined, a
\* standalone call and an assignment have been run), on a token sequence in
\* which a scan stops for each of the three reasons and at the end
C19_Witness ==
    /\ \E f \in DOMAIN functions : functions[f].params # << >>
    /\ \E k \in Events("call") : log[k].call_start = log[k].i
    /\ Events("assign") # {}
    /\ \E q \in 0..(Len(tokens) - 1) :
          StartsWith(At(tokens, q), PRINT) /\ FirstStop(tokens, q - 1) = q
    /\ \E q \in 0..(Len(tokens) - 1) :
          At(tokens, q) = FUNC_END /\ FirstStop(tokens, q - 1) = q
    /\ \E q \in 1..(Len(tokens) - 2) :
          /\ At(tokens, q + 1) = ASSIGN
          /\ ~StartsWith(At(tokens, q), PRINT)
          /\ FirstStop(tokens, q - 1) = q
    /\ \E q \in 0..(Len(tokens) - 1) : FirstStop(tokens, q) = Len(tokens)


\* a line run() prints to report a fault
IsReport(line) ==
    IsLoadReport(line) \/ IsErrorReport(line) \/ line = FatalReturnReport

\* C20: global execution is never silently truncated: when run() finishes
\* without reporting any error, the global block has run to the end of the
\* global token sequence; a block terminator at top level with no opening
\* marker is reported as a syntax fault and does not end execution silently.
C20_NoSilentTruncation ==
    (/\ phase = "returned"
     /\ tokens # << >>
     /\ \A k \in 1..Len(output) : ~IsReport(output[k]))
    => \E k \in Events("end") :
           /\ log[k].depth = 0
           /\ log[k].tokens = global_tokens
           /\ log[k].i = Len(global_tokens)


\* the record of the entry of the function call in progress at nesting level
\* k: the latest entry of a call made from level k - 1
EntryOf(k) ==
    LET entries == { j \in Events("call") : log[j].ok /\ log[j].depth = k - 1 }
    IN  log[CHOOSE j \in entries : \A m \in entries : m <= j]

\* C21: between the entry and the exit of a function call, every name bound
\* in the global table at call entry keeps its value and, when the caller is a
\* function body, the caller's scope is unchanged; the only variable effects
\* of a call that survive it are global bindings of names that the global
\* table did not hold when the call started.
C21_CallPreservesCallerAndGlobals ==
    \A k \in 1..Len(scopes) :
        /\ \A name \in DOMAIN EntryOf(k).symbol_table :
              /\ name \in DOMAIN symbol_table
              /\ symbol_table[name] = EntryOf(k).symbol_table[name]
        /\ k >= 2 => scopes[k - 1] = EntryOf(k).scope

\* a call made by a function body has assigned to a name of its caller's
\* scope and has created a global binding; the caller's scope and the global
\* bindings of the time of the entry are as they were
C21_Witness ==
    /\ Len(scopes) = 2
    /\ \E name \in DOMAIN scopes[1] :
          /\ name \in DOMAIN scopes[2]
          /\ scopes[2][name] # scopes[1][name]
          /\ \E j \in Events("assign") :
                log[j].depth = 2 /\ log[j].target_var = name /\ log[j].written # {}
    /\ DOMAIN symbol_table # DOMAIN EntryOf(2).symbol_table
    /\ scopes[1] = EntryOf(2).scope


\* C22: tokenization is idempotent: joining the tokens of a source text with
\* single spaces and tokenizing the joined text yields the same tokens, also
\* for runs of call and print markers such as * * x.  (During the first pass
\* of run(), tokens is the lexer's output for source_code.)
C22_TokenizeIdempotent ==
    phase = "pass1" => Tokenize(Join(tokens, <<SP>>)) = tokens

=============================================================================
